---- MODULE Spec2Model ----
(***************************************************************************)
(* Model of tools/tiling_pyhist.py: main() pulls the PyHIST docker image,  *)
(* process_files() enumerates the images of the input (a single image or   *)
(* the members of a ZIP), runs run_pyhist_docker on each through a         *)
(* ProcessPoolExecutor(max_workers=25), builds image_tile_map as futures   *)
(* complete, create_output_zip() packages the tiles and main() removes the *)
(* extraction directory.                                                   *)
(***************************************************************************)
EXTENDS Integers, FiniteSets, Sequences, TLC

VARIABLES
    input,           \* the run's input: path, archive well-formedness, members
    pc,              \* position of main(): "pull", "process_files", "dispatch",
                     \* "package", "cleanup", "done" or "error"
    err,             \* the exception that ended the run, or None
    pull,            \* the `docker pull` process: "none", "ok" or "failed"
    workspace,       \* TRUE while the mkdtemp directory exists on disk
    temp_dir,        \* process_files' local temp_dir: None or "zip_extract_"
    image_paths,     \* process_files' list image_paths (a sequence of paths)
    submitted,       \* how many of image_paths have been executor.submit-ted
    status,          \* per path: "none", "queued", "running", "exited", "collected"
    result,          \* per path: NoResult, or the exit of its docker run
    fs,              \* tile directory -> set of *.png files in it
    image_tile_map,  \* process_files' dict: stem -> tile directory
    output_zip,      \* the file at output_zip_path
    log,             \* events written to the log
    submits,         \* per path: executor.submit calls made for it in this run
    invoked,         \* per path: docker runs started for it in this run
    future,          \* per path: NoFuture, or what its run_pyhist_docker call gave
    run,             \* 1 in the first run of main, 2 in a second run on the same input
    first_zip,       \* entry names of the archive the first run wrote
    poolK,           \* pool view: number of work items to submit
    poolQueued,      \* pool view: submitted work items waiting for a worker
    poolRunning,     \* pool view: work items a worker is executing
    poolDone         \* pool view: finished work items

vars == <<input, pc, err, pull, workspace, temp_dir, image_paths, submitted,
          status, result, fs, image_tile_map, output_zip, log,
          submits, invoked, future, run, first_zip,
          poolK, poolQueued, poolRunning, poolDone>>

mainVars == <<input, pc, err, pull, workspace, temp_dir, image_paths, submitted,
              status, result, fs, image_tile_map, output_zip, log,
              submits, invoked, future, run, first_zip>>

runVars == <<run, first_zip>>

histVars == <<submits, invoked, future, run, first_zip>>

poolVars == <<poolK, poolQueued, poolRunning, poolDone>>

None == "None"

\* No path, no tile directory, no exit status and no outcome yet.
NoPath == [dir |-> "", stem |-> "", ext |-> ""]
NoDir == [parent |-> "", stem |-> ""]
NoResult == [rc |-> -1, ntiles |-> 0]
NoFuture == [raised |-> FALSE, tile_dir |-> NoDir, message |-> << >>]

\* ---------------------------------------------------------------- bounds
\* Largest number of members of an input archive.
MaxMembers == 3
\* Largest number of tile files one docker run writes.
MaxTiles == 1
\* Largest number of work items in the pool view.
MaxK == 27

\* ProcessPoolExecutor(max_workers=25)
max_workers == 25

\* ------------------------------------------------------------ path model
\* A path is [dir, stem, ext]: Path.parent, Path.stem and Path.suffix.
Path(d, s, e) == [dir |-> d, stem |-> s, ext |-> e]

\* str.lower() on the suffixes of the model's paths.
Lower(s) ==
    CASE s = ".PNG" -> ".png"
      [] s = ".JPG" -> ".jpg"
      [] s = ".TIF" -> ".tif"
      [] s = ".ZIP" -> ".zip"
      [] OTHER -> s

VALID_EXTENSIONS == {".png", ".jpg", ".jpeg", ".tif", ".tiff", ".svs", ".dat"}

\* Variant: the suffix is compared without .lower().
IsImageCaseSensitive(p) == p.ext \in VALID_EXTENSIONS

\* Path(...).suffix.lower() in VALID_EXTENSIONS
IsImage(p) == Lower(p.ext) \in VALID_EXTENSIONS

\* input_path.suffix.lower() == ".zip"
IsZip(p) == Lower(p.ext) = ".zip"

\* The members an archive can hold, in zip_ref.namelist() order.
Namelist ==
    << Path("d1", "a", ".png"),
       Path("d1", "a", ".JPG"),
       Path("d2", "a", ".png"),
       Path("d1", "b", ".svs"),
       Path("d1", "notes", ".txt") >>

Members == {Namelist[i] : i \in 1..Len(Namelist)}

\* The paths given as --input.
SingleInputs == {Path("in", "slide", ".svs"), Path("in", "scan", ".TIF")}
ZipInputs == {Path("in", "slides", ".zip"), Path("in", "SLIDES", ".ZIP")}
OtherInputs == {Path("in", "notes", ".txt"), Path("in", "README", "")}

AllPaths == Members \cup SingleInputs

\* run_pyhist_docker: output_root / stem / f"{stem}_tiles", output_root =
\* image_path.parent / "output".  The path is determined by parent and stem.
TileDir(p) == [parent |-> p.dir, stem |-> p.stem]

TileDirs == {TileDir(p) : p \in AllPaths}

\* ------------------------------------------------------------ file system
\* A tile file: its name in the tile directory and the job that wrote it.
TileFile(n, p) == [name |-> n, by |-> p]

\* One docker run of image p writing n tiles into its tile directory; a file
\* of the same name already there is overwritten.
WriteTiles(fsys, p, n) ==
    [fsys EXCEPT ![TileDir(p)] =
        {f \in @ : f.name \notin 1..n} \cup {TileFile(i, p) : i \in 1..n}]

\* tile_dir.glob("*.png")
Glob(fsys, d) == fsys[d]

\* ------------------------------------------------------------ pure steps
\* Variant: the else branch is missing, anything that is not a zip is an image.
ClassifyLenient(p) == IF IsZip(p) THEN "zip" ELSE "image"

\* The input classification of process_files (if / elif / else).
Classify(p) ==
    IF IsImage(p) THEN "image"
    ELSE IF IsZip(p) THEN "zip"
    ELSE "unsupported"

\* file_list of extract_zip: the namelist of the archive, in archive order.
FileList(inp) == SelectSeq(Namelist, LAMBDA m : m \in inp.members)

\* Variant: BadZipFile is swallowed and the readable members are returned.
ExtractZipLenient(inp) == [raised |-> FALSE, file_list |-> FileList(inp)]

\* Variant: BadZipFile is caught and an empty file list is returned.
ExtractZipEmptyOnError(inp) ==
    IF inp.wellFormed
    THEN [raised |-> FALSE, file_list |-> FileList(inp)]
    ELSE [raised |-> FALSE, file_list |-> << >>]

\* extract_zip: BadZipFile becomes RuntimeError("Invalid ZIP file.").
ExtractZip(inp) ==
    IF inp.wellFormed
    THEN [raised |-> FALSE, file_list |-> FileList(inp)]
    ELSE [raised |-> TRUE, file_list |-> << >>]

\* The image_paths loop over file_list.
ImagePathsOf(file_list) == SelectSeq(file_list, IsImage)

\* Variant: subprocess.run without check=True.
PullOutcomeUnchecked(rc) == "ok"

\* pull_docker_image: subprocess.run(check=True), CalledProcessError re-raised.
PullOutcome(rc) == IF rc = 0 THEN "ok" ELSE "raise"

\* e.stderr of the docker run of image p.
Stderr(p) == <<"stderr", p>>

\* Variant: subprocess.run without check=True, the exit status is ignored.
RunPyhistDockerNoRaise(p, rc) ==
    [raised |-> FALSE, tile_dir |-> TileDir(p), message |-> << >>]

\* run_pyhist_docker: raises RuntimeError(f"PyHIST docker processing failed:
\* {e.stderr}") on a non-zero exit, else returns the expected tile folder
\* without looking at it.
RunPyhistDocker(p, rc) ==
    IF rc = 0
    THEN [raised |-> FALSE, tile_dir |-> TileDir(p), message |-> << >>]
    ELSE [raised |-> TRUE, tile_dir |-> NoDir,
          message |-> <<"PyHIST docker processing failed", Stderr(p)>>]

\* Variant: the loop body without its try / except.
CollectOutcomeNoCatch(p, rc, fsys) ==
    LET r == RunPyhistDocker(p, rc) IN
    IF r.raised THEN "raise"
    ELSE IF Glob(fsys, r.tile_dir) # {} THEN "put" ELSE "warn"

\* Variant: the loop body without the `if tile_files` test.
CollectOutcomePutEmpty(p, rc, fsys) ==
    LET r == RunPyhistDocker(p, rc) IN
    IF r.raised THEN "error" ELSE "put"

\* Variant: an empty tile directory is handled like a raised error.
CollectOutcomeEmptyIsError(p, rc, fsys) ==
    LET r == RunPyhistDocker(p, rc) IN
    IF r.raised THEN "error"
    ELSE IF Glob(fsys, r.tile_dir) # {} THEN "put" ELSE "error"

\* The body of the as_completed loop for the future of image p.
CollectOutcome(p, rc, fsys) ==
    LET r == RunPyhistDocker(p, rc) IN
    IF r.raised THEN "error"
    ELSE IF Glob(fsys, r.tile_dir) # {} THEN "put" ELSE "warn"

\* Variant: a future that raised is submitted again.
AfterCollectRetry(o) == IF o = "error" THEN "queued" ELSE "collected"

\* The future of an image is yielded once by as_completed: whatever the loop
\* body did with it, it is not submitted again.
AfterCollect(o) == "collected"

\* Variant: main without the rmtree call.
CleanupWorkspaceSkipped(td, ws) == ws

\* main: if temp_dir: shutil.rmtree(temp_dir, ignore_errors=True)
CleanupWorkspace(td, ws) == IF td # None THEN FALSE ELSE ws

\* image_tile_map[k] = v
MapPut(m, k, v) == [x \in (DOMAIN m) \cup {k} |-> IF x = k THEN v ELSE m[x]]

EmptyMap == [x \in {} |-> None]

\* create_output_zip: one entry f"{image_name}/{file.name}" per globbed file.
ZipEntries(m, fsys) ==
    UNION {{[arcname |-> <<s, f.name>>, by |-> f.by] : f \in Glob(fsys, m[s])}
           : s \in DOMAIN m}

\* Variant: one worker more than max_workers.
WorkerIdleOffByOne(n) == n <= max_workers

\* Variant: a pool without workers.
WorkerNeverIdle(n) == n < 0

\* A work item starts only on an idle worker of the max_workers processes.
WorkerIdle(n) == n < max_workers

Running == {p \in AllPaths : status[p] = "running"}

\* Variant: the loop stops at the first completed future.
AnyResolved ==
    \/ image_paths = << >>
    \/ \E i \in 1..Len(image_paths) : status[image_paths[i]] = "collected"

\* as_completed has yielded every future and the executor has shut down.
AllResolved ==
    \A i \in 1..Len(image_paths) : status[image_paths[i]] = "collected"

LogEvent(level, event, p) == [level |-> level, event |-> event, path |-> p]

\* ------------------------------------------------------------------ Init
Archives == {m \in SUBSET Members : Cardinality(m) <= MaxMembers}

Inputs ==
    {[path |-> p, wellFormed |-> TRUE, members |-> {}]
        : p \in SingleInputs \cup OtherInputs}
    \cup
    {[path |-> p, wellFormed |-> w, members |-> m]
        : p \in ZipInputs, w \in BOOLEAN, m \in Archives}

\* What an earlier run may have left at output_zip_path.
StaleEntries == {[arcname |-> <<"old", 1>>, by |-> Path("old", "old", ".png")]}

OutputFiles ==
    {[exists |-> FALSE, entries |-> {}], [exists |-> TRUE, entries |-> StaleEntries]}

InitMain ==
    /\ pc = "pull"
    /\ err = None
    /\ pull = "none"
    /\ workspace = FALSE
    /\ temp_dir = None
    /\ image_paths = << >>
    /\ submitted = 0
    /\ status = [p \in AllPaths |-> "none"]
    /\ result = [p \in AllPaths |-> NoResult]
    /\ fs = [d \in TileDirs |-> {}]
    /\ image_tile_map = EmptyMap
    /\ log = {}
    /\ submits = [p \in AllPaths |-> 0]
    /\ invoked = [p \in AllPaths |-> 0]
    /\ future = [p \in AllPaths |-> NoFuture]
    /\ run = 1
    /\ first_zip = {}

Init ==
    /\ input \in Inputs
    /\ output_zip \in OutputFiles
    /\ InitMain
    /\ poolK = 0 /\ poolQueued = 0 /\ poolRunning = 0 /\ poolDone = 0

\* --------------------------------------------------------------- actions
\* main: pull_docker_image()
PullDockerImage ==
    /\ pc = "pull"
    /\ \E rc \in {0, 1} :
        /\ pull' = IF rc = 0 THEN "ok" ELSE "failed"
        /\ IF PullOutcome(rc) = "ok"
           THEN /\ pc' = "process_files"
                /\ err' = err
                /\ log' = log \cup {LogEvent("INFO", "pulled", NoPath)}
           ELSE /\ pc' = "error"
                /\ err' = "RuntimeError:pull"
                /\ log' = log \cup {LogEvent("ERROR", "pull_failed", NoPath)}
    /\ UNCHANGED <<input, workspace, temp_dir, image_paths, submitted, status,
                   result, fs, image_tile_map, output_zip, poolVars, histVars>>

\* process_files, first branch: the input is one image.
CollectSingleImage ==
    /\ pc = "process_files"
    /\ Classify(input.path) = "image"
    /\ image_paths' = <<input.path>>
    /\ pc' = "dispatch"
    /\ UNCHANGED <<input, err, pull, workspace, temp_dir, submitted, status,
                   result, fs, image_tile_map, output_zip, log, poolVars, histVars>>

\* process_files, second branch: extract_zip and the filter on file_list.
CollectFromZip ==
    /\ pc = "process_files"
    /\ Classify(input.path) = "zip"
    /\ workspace' = TRUE
    /\ LET x == ExtractZip(input) IN
        IF x.raised
        THEN /\ pc' = "error"
             /\ err' = "RuntimeError:zip"
             /\ UNCHANGED <<temp_dir, image_paths, log>>
        ELSE /\ pc' = "dispatch"
             /\ temp_dir' = "zip_extract_"
             /\ image_paths' = ImagePathsOf(x.file_list)
             /\ log' = log \cup {LogEvent("INFO", "extracted", NoPath)}
             /\ err' = err
    /\ UNCHANGED <<input, pull, submitted, status, result, fs, image_tile_map,
                   output_zip, poolVars, histVars>>

\* process_files, else branch: ValueError("Unsupported input file type").
RejectInput ==
    /\ pc = "process_files"
    /\ Classify(input.path) = "unsupported"
    /\ pc' = "error"
    /\ err' = "ValueError"
    /\ UNCHANGED <<input, pull, workspace, temp_dir, image_paths, submitted,
                   status, result, fs, image_tile_map, output_zip, log, poolVars, histVars>>

\* executor.submit(run_pyhist_docker, img_path), in image_paths order.
Submit ==
    /\ pc = "dispatch"
    /\ submitted < Len(image_paths)
    /\ submitted' = submitted + 1
    /\ status' = [status EXCEPT ![image_paths[submitted + 1]] = "queued"]
    /\ submits' = [submits EXCEPT ![image_paths[submitted + 1]] = @ + 1]
    /\ UNCHANGED <<input, pc, err, pull, workspace, temp_dir, image_paths,
                   result, fs, image_tile_map, output_zip, log, poolVars,
                   invoked, future, runVars>>

\* A worker process takes the work item of image p and starts its docker run.
StartJob(p) ==
    /\ status[p] = "queued"
    /\ WorkerIdle(Cardinality(Running))
    /\ status' = [status EXCEPT ![p] = "running"]
    /\ invoked' = [invoked EXCEPT ![p] = @ + 1]
    /\ log' = log \cup {LogEvent("INFO", "docker_run", p)}
    /\ UNCHANGED <<input, pc, err, pull, workspace, temp_dir, image_paths,
                   submitted, result, fs, image_tile_map, output_zip, poolVars,
                   submits, future, runVars>>

\* The docker run of image p exits with rc, having written n tiles; in a
\* second run the tool does for p what it did in the first.  The worker's
\* run_pyhist_docker call then raises or returns.
ToolExit(p) ==
    /\ status[p] = "running"
    /\ \E rc \in {0, 1}, n \in 0..MaxTiles :
        /\ run = 2 => (rc = result[p].rc /\ n = result[p].ntiles)
        /\ result' = [result EXCEPT ![p] = [rc |-> rc, ntiles |-> n]]
        /\ future' = [future EXCEPT ![p] = RunPyhistDocker(p, rc)]
        /\ fs' = WriteTiles(fs, p, n)
        /\ log' = log \cup
            {IF rc = 0 THEN LogEvent("INFO", "docker_ok", p)
                       ELSE LogEvent("ERROR", "docker_failed", p)}
    /\ status' = [status EXCEPT ![p] = "exited"]
    /\ UNCHANGED <<input, pc, err, pull, workspace, temp_dir, image_paths,
                   submitted, image_tile_map, output_zip, poolVars,
                   submits, invoked, runVars>>

\* One iteration of `for future in as_completed(future_to_image)`.
Collect(p) ==
    /\ pc = "dispatch"
    /\ submitted = Len(image_paths)
    /\ status[p] = "exited"
    /\ LET o == CollectOutcome(p, result[p].rc, fs) IN
        /\ status' = [status EXCEPT ![p] = AfterCollect(o)]
        /\ image_tile_map' =
             IF o = "put" THEN MapPut(image_tile_map, p.stem, TileDir(p))
                          ELSE image_tile_map
        /\ log' = log \cup
             (IF o = "warn" THEN {LogEvent("WARNING", "no_tiles", p)}
              ELSE IF o = "error" THEN {LogEvent("ERROR", "processing_failed", p)}
              ELSE {})
        /\ pc' = IF o = "raise" THEN "error" ELSE pc
        /\ err' = IF o = "raise" THEN "RuntimeError:job" ELSE err
    /\ UNCHANGED <<input, pull, workspace, temp_dir, image_paths, submitted,
                   result, fs, output_zip, poolVars, histVars>>

\* The with-block ends and process_files returns image_tile_map, temp_dir.
Return ==
    /\ pc = "dispatch"
    /\ submitted = Len(image_paths)
    /\ AllResolved
    /\ pc' = "package"
    /\ UNCHANGED <<input, err, pull, workspace, temp_dir, image_paths, submitted,
                   status, result, fs, image_tile_map, output_zip, log, poolVars, histVars>>

\* create_output_zip: ZipFile(output_zip_path, 'w') replaces the file.
CreateOutputZip ==
    /\ pc = "package"
    /\ output_zip' = [exists |-> TRUE, entries |-> ZipEntries(image_tile_map, fs)]
    /\ log' = log \cup {LogEvent("INFO", "zip_created", NoPath)}
    /\ pc' = "cleanup"
    /\ UNCHANGED <<input, err, pull, workspace, temp_dir, image_paths, submitted,
                   status, result, fs, image_tile_map, poolVars, histVars>>

\* create_output_zip: the output path cannot be opened for writing (OSError).
CreateOutputZipFails ==
    /\ pc = "package"
    /\ pc' = "error"
    /\ err' = "OSError"
    /\ UNCHANGED <<input, pull, workspace, temp_dir, image_paths, submitted,
                   status, result, fs, image_tile_map, output_zip, log, poolVars, histVars>>

\* main: if temp_dir: shutil.rmtree(temp_dir, ignore_errors=True)
Cleanup ==
    /\ pc = "cleanup"
    /\ workspace' = CleanupWorkspace(temp_dir, workspace)
    /\ log' = log \cup {LogEvent("INFO", "completed", NoPath)}
    /\ pc' = "done"
    /\ UNCHANGED <<input, err, pull, temp_dir, image_paths, submitted, status,
                   result, fs, image_tile_map, output_zip, poolVars, histVars>>

Next ==
    \/ PullDockerImage
    \/ CollectSingleImage
    \/ CollectFromZip
    \/ RejectInput
    \/ Submit
    \/ \E p \in AllPaths : StartJob(p)
    \/ \E p \in AllPaths : ToolExit(p)
    \/ \E p \in AllPaths : Collect(p)
    \/ Return
    \/ CreateOutputZip
    \/ CreateOutputZipFails
    \/ Cleanup

Spec == Init /\ [][Next]_vars

\* ------------------------------------------------------------- pool view
\* The executor alone, with work items counted instead of named, so that more
\* items than max_workers can be dispatched.
InitPool ==
    /\ input = [path |-> Path("in", "slides", ".zip"), wellFormed |-> TRUE,
                members |-> {}]
    /\ output_zip = [exists |-> FALSE, entries |-> {}]
    /\ InitMain
    /\ poolK \in 0..MaxK
    /\ poolQueued = 0 /\ poolRunning = 0 /\ poolDone = 0

\* executor.submit of the next work item.
PoolSubmit ==
    /\ poolQueued + poolRunning + poolDone < poolK
    /\ poolQueued' = poolQueued + 1
    /\ UNCHANGED <<poolK, poolRunning, poolDone, mainVars>>

\* An idle worker takes a queued work item.
PoolStart ==
    /\ poolQueued > 0
    /\ WorkerIdle(poolRunning)
    /\ poolQueued' = poolQueued - 1
    /\ poolRunning' = poolRunning + 1
    /\ UNCHANGED <<poolK, poolDone, mainVars>>

\* A worker's docker run exits.
PoolExit ==
    /\ poolRunning > 0
    /\ poolRunning' = poolRunning - 1
    /\ poolDone' = poolDone + 1
    /\ UNCHANGED <<poolK, poolQueued, mainVars>>

NextPool == PoolSubmit \/ PoolStart \/ PoolExit

SpecPool == InitPool /\ [][NextPool]_vars

\* -------------------------------------------------------------- fairness
\* The steps of the main process: main, process_files and its as_completed
\* loop, create_output_zip.
MainStep ==
    \/ PullDockerImage
    \/ CollectSingleImage
    \/ CollectFromZip
    \/ RejectInput
    \/ Submit
    \/ \E p \in AllPaths : Collect(p)
    \/ Return
    \/ CreateOutputZip
    \/ CreateOutputZipFails
    \/ Cleanup

\* The runs whose ending is checked: every kind of input, written to an
\* output path that holds no file yet.
InitFair ==
    /\ Init
    /\ input.path \in SingleInputs \cup OtherInputs \cup {Path("in", "slides", ".zip")}
    /\ ~output_zip.exists

\* The main process keeps running, idle workers keep taking queued work
\* items, and docker runs keep exiting: no step that stays possible is put
\* off for ever.
FairSpec ==
    /\ InitFair /\ [][Next]_vars
    /\ WF_vars(MainStep)
    /\ WF_vars(\E p \in AllPaths : StartJob(p))
    /\ WF_vars(\E p \in AllPaths : ToolExit(p))

\* The same for the pool view.
FairSpecPool ==
    /\ SpecPool
    /\ WF_vars(PoolSubmit)
    /\ WF_vars(PoolStart)
    /\ WF_vars(PoolExit)

\* ------------------------------------------------------------ second run
\* main is called again with the same input and output path after a completed
\* first run.  Locals start afresh; the log file and the output archive are
\* those the first run left; an archive is extracted to a new mkdtemp
\* directory, a single image keeps its output folder of the first run.
Rerun ==
    /\ pc = "done"
    /\ run = 1
    /\ run' = 2
    /\ first_zip' = {e.arcname : e \in output_zip.entries}
    /\ pc' = "pull"
    /\ err' = None
    /\ pull' = "none"
    /\ temp_dir' = None
    /\ image_paths' = << >>
    /\ submitted' = 0
    /\ status' = [p \in AllPaths |-> "none"]
    /\ image_tile_map' = EmptyMap
    /\ submits' = [p \in AllPaths |-> 0]
    /\ invoked' = [p \in AllPaths |-> 0]
    /\ future' = [p \in AllPaths |-> NoFuture]
    /\ fs' = IF IsZip(input.path) THEN [d \in TileDirs |-> {}] ELSE fs
    /\ UNCHANGED <<input, workspace, result, output_zip, log, poolVars>>

NextTwice == Next \/ Rerun

SpecTwice == Init /\ [][NextTwice]_vars

\* ---------------------------------------------------------------- claims
Jobs == {image_paths[i] : i \in 1..Len(image_paths)}

NoJobDispatched == submitted = 0 /\ \A p \in AllPaths : status[p] = "none"

\* The docker run of p exited 0 and wrote at least one tile.
Successful(p) ==
    status[p] \in {"exited", "collected"} /\ result[p].rc = 0 /\ result[p].ntiles > 0

\* The future of p raised, or its tile directory held no tile when collected.
FailedAtCollect(p) == result[p].rc # 0 \/ Glob(fs, TileDir(p)) = {}

\* C1: after main completes on an archive, every entry of the output archive
\* is a tile of a successful image under that image's own stem, and every
\* tile of every successful image is in the archive under its stem.
C1_OutputHoldsSuccessfulImages ==
    (pc = "done" /\ IsZip(input.path)) =>
        /\ \A e \in output_zip.entries :
             Successful(e.by) /\ e.arcname[1] = e.by.stem
        /\ \A p \in Jobs : Successful(p) =>
             \A i \in 1..result[p].ntiles :
                [arcname |-> <<p.stem, i>>, by |-> p] \in output_zip.entries

\* The step that collects a failed job changes neither the result mapping nor
\* any other job, and does not end the run.
FailedCollectIsIsolated ==
    \A p \in AllPaths :
        (pc = "dispatch" /\ status[p] = "exited" /\ status'[p] = "collected"
            /\ FailedAtCollect(p))
        => /\ image_tile_map' = image_tile_map
           /\ pc' = "dispatch" /\ err' = err
           /\ \A q \in AllPaths \ {p} :
                status'[q] = status[q] /\ result'[q] = result[q]

\* When process_files has returned, every submitted job ran to its exit and
\* has its outcome recorded: a key of the mapping, or a log event of its own.
EveryOutcomeRecorded ==
    pc \in {"package", "cleanup", "done"} =>
        \A p \in Jobs :
            /\ status[p] = "collected"
            /\ \/ p.stem \in DOMAIN image_tile_map
               \/ LogEvent("WARNING", "no_tiles", p) \in log
               \/ LogEvent("ERROR", "processing_failed", p) \in log

C3_FanInBarrier ==
    (pc \in {"package", "cleanup", "done"} \/ err = "OSError") =>
        /\ submitted = Len(image_paths)
        /\ \A p \in AllPaths : status[p] \in {"none", "collected"}

C3_Witness == pc = "package" /\ Len(image_paths) >= 2 /\ AllResolved

\* C4: the number of docker runs executing at once never exceeds max_workers,
\* also when more work items than max_workers are dispatched.
C4_PoolBound == poolRunning <= max_workers

C4_Witness == poolK > max_workers /\ poolRunning = max_workers /\ poolQueued > 0

\* C5: no run ends, normally or by an error, with the extraction directory
\* still on disk.
C5_WorkspaceAlwaysDeleted == pc \in {"done", "error"} => ~workspace

\* The suffix of p is neither a recognized image suffix nor .zip.
Unsupported(p) == Lower(p.ext) \notin (VALID_EXTENSIONS \cup {".zip"})

\* C6 as stated: when the unsupported-type error is raised no external
\* process, docker pull or docker run, has been started.
C6_NoExternalProcessBeforeReject ==
    err = "ValueError" => (pull = "none" /\ NoJobDispatched)

\* C6 as amended: an unsupported input ends the run in an error with no docker
\* run submitted or started; the unsupported-type error is raised after the
\* docker pull of main has run successfully.
C6_NoToolRunBeforeReject ==
    /\ Unsupported(input.path) =>
        /\ NoJobDispatched
        /\ pc \notin {"pull", "process_files"} =>
             (pc = "error" /\ err \in {"ValueError", "RuntimeError:pull"})
    /\ err = "ValueError" => (Unsupported(input.path) /\ pull = "ok")

C6_Witness == err = "ValueError" /\ pc = "error" /\ pull = "ok"

\* C7: a corrupted archive ends the run with the invalid-archive error (if the
\* pull has not failed before) and no job is ever submitted or started.
C7_CorruptArchiveNoDispatch ==
    /\ (IsZip(input.path) /\ ~input.wellFormed) =>
        /\ NoJobDispatched
        /\ image_paths = << >>
        /\ pc \notin {"pull", "process_files"} =>
             (pc = "error" /\ err \in {"RuntimeError:zip", "RuntimeError:pull"})
        /\ pull = "ok" /\ pc # "process_files" => err = "RuntimeError:zip"
    /\ err = "RuntimeError:zip" => (IsZip(input.path) /\ ~input.wellFormed)

C7_Witness ==
    /\ err = "RuntimeError:zip" /\ pc = "error"
    /\ \E m \in input.members : IsImage(m)

\* C8: any two distinct jobs of one run write to different tile directories.
C8_DistinctTileDirs ==
    \A i, j \in 1..Len(image_paths) :
        i # j => TileDir(image_paths[i]) # TileDir(image_paths[j])

\* The mapping process_files builds when the jobs, with the exits they had in
\* this run, complete and are collected one after the other in submission
\* order.
RECURSIVE InOrderMap(_, _, _)
InOrderMap(i, fsys, m) ==
    IF i > Len(image_paths) THEN m
    ELSE LET p == image_paths[i]
             fs2 == WriteTiles(fsys, p, result[p].ntiles)
             o == CollectOutcome(p, result[p].rc, fs2)
         IN InOrderMap(i + 1, fs2,
                IF o = "put" THEN MapPut(m, p.stem, TileDir(p)) ELSE m)

\* C9: for fixed jobs with fixed exits, the mapping process_files returns is
\* the same whatever the completion order: it is the mapping of the run that
\* completes in submission order.
C9_OrderIndependentMap ==
    pc = "package" =>
        image_tile_map = InOrderMap(1, [d \in TileDirs |-> {}], EmptyMap)

\* C10: when the docker pull fails the run ends at once with that error: no
\* archive is extracted, no image is enumerated and no job is submitted.
C10_PullFailureFatal ==
    pull = "failed" =>
        /\ pc = "error" /\ err = "RuntimeError:pull"
        /\ ~workspace /\ temp_dir = None
        /\ image_paths = << >>
        /\ NoJobDispatched

C10_Witness ==
    /\ pull = "failed" /\ pc = "error"
    /\ IsZip(input.path) /\ input.wellFormed
    /\ \E m \in input.members : IsImage(m)

\* The fatal preconditions: the image was pulled and the input is an image or
\* a well-formed archive.
PreconditionsPass ==
    /\ pull = "ok"
    /\ IsImage(input.path) \/ (IsZip(input.path) /\ input.wellFormed)

\* process_files has returned and every job raised or left no tile.
AllJobsFailed ==
    /\ PreconditionsPass
    /\ pc \in {"package", "cleanup", "done", "error"}
    /\ \A p \in Jobs :
        status[p] = "collected"
            /\ (result[p].rc # 0 \/ Glob(fs, TileDir(p)) = {})

C12_WorkspaceRemovedOnCompletion ==
    /\ pc = "done" => ~workspace
    /\ (IsZip(input.path) /\ pc \in {"dispatch", "package", "cleanup"}) =>
         (workspace /\ temp_dir # None)

C12_Witness ==
    /\ pc = "done" /\ IsZip(input.path) /\ temp_dir # None /\ ~workspace
    /\ \E p, q \in Jobs :
        /\ result[p].rc # 0
        /\ Successful(q) /\ q.stem \in DOMAIN image_tile_map

\* C13: a second run of main on the same input and output path, with the
\* tool doing for each image what it did in the first run, writes an archive
\* with exactly the entry names of the first run's archive.
C13_SameMembership ==
    (run = 2 /\ pc = "done") =>
        {e.arcname : e \in output_zip.entries} = first_zip

\* The docker run of p exited 0, p has been collected and its tile directory
\* holds no tile.
ZeroTileJob(p) ==
    status[p] = "collected" /\ result[p].rc = 0 /\ Glob(fs, TileDir(p)) = {}

\* C14: a job whose docker run succeeded but whose tile directory holds no
\* tile has no entry in the result mapping, is reported by a warning event, by
\* no error event, and ends the run in no exception.
C14_ZeroTilesWarnedNotMapped ==
    \A p \in Jobs : ZeroTileJob(p) =>
        /\ \A k \in DOMAIN image_tile_map : image_tile_map[k] # TileDir(p)
        /\ LogEvent("WARNING", "no_tiles", p) \in log
        /\ LogEvent("ERROR", "processing_failed", p) \notin log
        /\ LogEvent("ERROR", "docker_failed", p) \notin log
        /\ err # "RuntimeError:job"

C14_Witness ==
    /\ pc = "package"
    /\ \E p, q \in Jobs :
        /\ ZeroTileJob(p)
        /\ LogEvent("WARNING", "no_tiles", p) \in log
        /\ Successful(q) /\ q.stem \in DOMAIN image_tile_map

\* C15: in one run every enumerated image is submitted exactly once and its
\* docker run is started at most once, exactly once by the time process_files
\* has returned, whatever its outcome; nothing else is submitted.
C15_NoRetry ==
    /\ \A p \in AllPaths :
        /\ submits[p] <= 1
        /\ invoked[p] <= submits[p]
        /\ p \notin Jobs => submits[p] = 0
        /\ status[p] \in {"running", "exited", "collected"} => invoked[p] = 1
    /\ (pc \in {"package", "cleanup", "done"} \/ err = "OSError") =>
        \A p \in Jobs : submits[p] = 1 /\ invoked[p] = 1

C15_Witness ==
    /\ pc = "package"
    /\ \E p, q, r \in Jobs :
        /\ result[p].rc # 0 /\ invoked[p] = 1 /\ submits[p] = 1
        /\ ZeroTileJob(q) /\ invoked[q] = 1
        /\ Successful(r) /\ invoked[r] = 1

\* process_files has built image_paths.
Enumerated == pc \in {"dispatch", "package", "cleanup", "done"} \/ err = "OSError"

\* C16: a single-image input is enumerated as exactly that one image; an
\* archive as exactly its members whose suffix, lower-cased, is a recognized
\* image suffix, each once; a member with another suffix is left out and
\* does not make the run fail.
C16_JobEnumeration ==
    /\ Enumerated =>
        IF Lower(input.path.ext) \in VALID_EXTENSIONS
        THEN image_paths = <<input.path>>
        ELSE /\ Lower(input.path.ext) = ".zip"
             /\ Jobs = {m \in input.members : Lower(m.ext) \in VALID_EXTENSIONS}
             /\ Len(image_paths) = Cardinality(Jobs)
             /\ Path("d1", "notes", ".txt") \notin Jobs
             /\ Path("d1", "a", ".JPG") \in input.members =>
                    Path("d1", "a", ".JPG") \in Jobs
    /\ (pull = "ok" /\ pc # "process_files"
            /\ (Lower(input.path.ext) \in VALID_EXTENSIONS
                \/ (Lower(input.path.ext) = ".zip" /\ input.wellFormed)))
        => Enumerated

C16_Witness ==
    /\ pc = "dispatch"
    /\ Lower(input.path.ext) = ".zip"
    /\ input.members =
          {Path("d1", "a", ".JPG"), Path("d1", "b", ".svs"), Path("d1", "notes", ".txt")}
    /\ image_paths = <<Path("d1", "a", ".JPG"), Path("d1", "b", ".svs")>>

C16_WitnessSingle ==
    pc = "dispatch" /\ input.path.ext = ".TIF" /\ image_paths = <<input.path>>

\* C17: the run_pyhist_docker call of an image returns a directory exactly
\* when its docker run exits 0, and then the directory made of the image's
\* parent and stem, whether or not it holds a tile; on a non-zero exit it
\* returns none and raises an error that carries the run's stderr.
C17_ReturnsDirIffExitZero ==
    \A p \in AllPaths :
        IF status[p] \in {"exited", "collected"}
        THEN /\ future[p].raised <=> result[p].rc # 0
             /\ result[p].rc = 0 =>
                  /\ future[p].tile_dir = [parent |-> p.dir, stem |-> p.stem]
                  /\ future[p].message = << >>
             /\ result[p].rc # 0 =>
                  /\ future[p].tile_dir = NoDir
                  /\ future[p].message =
                        <<"PyHIST docker processing failed", Stderr(p)>>
        ELSE future[p] = NoFuture

C17_Witness ==
    \E p, q \in Jobs :
        /\ status[p] = "exited" /\ status[q] = "exited"
        /\ result[p].rc = 0 /\ ~future[p].raised
        /\ Glob(fs, future[p].tile_dir) = {}
        /\ result[q].rc # 0 /\ future[q].raised

\* The run meets a fatal error before packaging: the pull failed, or the
\* input is unsupported or a corrupted archive.
FatalBeforePackaging ==
    \/ pull = "failed"
    \/ Unsupported(input.path)
    \/ IsZip(input.path) /\ ~input.wellFormed

\* create_output_zip is never entered in such a run.
NeverPackaged ==
    FatalBeforePackaging =>
        /\ pc \in {"pull", "process_files", "error"}
        /\ err \in {None, "RuntimeError:pull", "ValueError", "RuntimeError:zip"}
        /\ LogEvent("INFO", "zip_created", NoPath) \notin log

\* The file at the output path changes only in create_output_zip.
OutputWrittenOnlyByPackaging == output_zip' # output_zip => pc = "package"

\* C18: a run that aborts on a pull failure, an unsupported input or an
\* invalid archive never enters create_output_zip, and the file at the output
\* path is changed by no other step: it is left as it was.
C18_OutputUntouchedOnFatalError ==
    []NeverPackaged /\ [][OutputWrittenOnlyByPackaging]_vars

C18_Witness ==
    /\ pc = "error" /\ err = "RuntimeError:zip"
    /\ output_zip = [exists |-> TRUE, entries |-> StaleEntries]

\* The run has ended: main returned or raised.
Terminated == pc \in {"done", "error"}

\* While a docker run has not exited, process_files cannot return: nothing
\* but the exit of the docker run ends the wait.
NoTimeout ==
    \A p \in AllPaths :
        status[p] = "running" => (pc = "dispatch" /\ ~ENABLED Return)

\* In a run that has ended past dispatch every submitted job got a worker.
EveryJobGotAWorker ==
    (Terminated /\ submitted > 0) =>
        \A p \in Jobs : invoked[p] = 1 /\ status[p] = "collected"

C19_PoolDrains ==
    /\ <>(poolDone = poolK)
    /\ (poolQueued > 0) ~> (poolQueued = 0)

====
